---- MODULE Spec2Model ----
(***************************************************************************)
(* Backtracking Sudoku solver (src/solver.py) driven by the "Solve" button *)
(* of the Tkinter grid (src/main.py).  The recursion of solve_sudoku is    *)
(* unfolded into an explicit call stack; every step of a call (find_empty, *)
(* one is_valid test of the digit loop, the write, the recursive call, the *)
(* undo, the two returns) is one action.                                   *)
(***************************************************************************)
EXTENDS Integers, Sequences, FiniteSets, TLC

VARIABLES entries,   \* SudokuUI.entries: the text of the 81 Entry widgets
          board,     \* the list-of-lists handed to Solver.solve_sudoku
          input,     \* ghost: board as it was at the entry of the root call
          stack,     \* active solve_sudoku calls, root first
          ret,       \* value returned by the call that returned last
          returned,  \* ghost: board at the entry of the call that returned last
          result,    \* outcome seen by SudokuUI.solve
          pc,        \* "idle" | "running" | "query" | "answered"
          calls,     \* number of times "Solve" was pressed
          wrote,     \* ghost: some cell was written since the root call began
          attempt,   \* ghost: signature of the latest is_valid test of the loop
          query      \* one stand-alone is_valid call and its answer

vars == <<entries, board, input, stack, ret, returned, result, pc, calls,
          wrote, attempt, query>>

-----------------------------------------------------------------------------
(* Program constants *)

N == 9

BoxSize == 3

(* Bounds of the model *)

MaxHoles == 4

MaxCalls == 2

MaxQueryHoles == 1

-----------------------------------------------------------------------------
(* Values *)

Idx == 0..(N - 1)

Cells == Idx \X Idx

Empty == ""

None == <<>>

\* str(k) for k in range(1, 10)
str(k) == <<"1", "2", "3", "4", "5", "6", "7", "8", "9">>[k]

DigitSeqRev == [k \in 1..N |-> str(N + 1 - k)]

\* map(str, range(1, 10)): the digits in the order the loop tries them
DigitSeq == [k \in 1..N |-> str(k)]

Digits == {str(k) : k \in 1..N}

\* int(d) of a digit character
int(d) == CHOOSE k \in 1..N : str(k) = d

-----------------------------------------------------------------------------
(* Solver.find_empty *)

\* the scan of range(9) x range(9): the first n, row-major, whose cell is ''
scan_from(b, n0) ==
    IF \A n \in n0..(N * N - 1) : b[n \div N][n % N] # Empty THEN None
    ELSE LET n == CHOOSE m \in n0..(N * N - 1) :
                      /\ b[m \div N][m % N] = Empty
                      /\ \A l \in n0..(m - 1) : b[l \div N][l % N] # Empty
         IN  <<n \div N, n % N>>

find_empty_wrap(b) ==
    IF scan_from(b, 0) = None THEN <<0, 0>> ELSE scan_from(b, 0)

find_empty(b) == scan_from(b, 0)

(* Solver.is_valid *)

top_of(x) == (x \div BoxSize) * BoxSize

is_valid_norow(b, row, col, digit) ==
    /\ ~ \E i \in 0..(N - 1) : b[i][col] = digit
    /\ ~ \E i \in top_of(row)..(top_of(row) + BoxSize - 1),
            j \in top_of(col)..(top_of(col) + BoxSize - 1) : b[i][j] = digit

is_valid_nocol(b, row, col, digit) ==
    /\ ~ \E i \in 0..(N - 1) : b[row][i] = digit
    /\ ~ \E i \in top_of(row)..(top_of(row) + BoxSize - 1),
            j \in top_of(col)..(top_of(col) + BoxSize - 1) : b[i][j] = digit

is_valid_nobox(b, row, col, digit) ==
    ~ \E i \in 0..(N - 1) : b[row][i] = digit \/ b[i][col] = digit

is_valid(b, row, col, digit) ==
    /\ ~ \E i \in 0..(N - 1) : b[row][i] = digit \/ b[i][col] = digit
    /\ ~ \E i \in top_of(row)..(top_of(row) + BoxSize - 1),
            j \in top_of(col)..(top_of(col) + BoxSize - 1) : b[i][j] = digit

-----------------------------------------------------------------------------
(* SudokuUI.get_board / set_board *)

get_board(e) == [i \in Idx |-> [j \in Idx |-> e[i][j]]]

set_board(e, b) ==
    [i \in Idx |-> [j \in Idx |-> IF b[i][j] # "." THEN b[i][j] ELSE Empty]]

-----------------------------------------------------------------------------
(* Grids typed into the Entry widgets *)

SolutionRows ==
    << <<5, 3, 4, 6, 7, 8, 9, 1, 2>>,
       <<6, 7, 2, 1, 9, 5, 3, 4, 8>>,
       <<1, 9, 8, 3, 4, 2, 5, 6, 7>>,
       <<8, 5, 9, 7, 6, 1, 4, 2, 3>>,
       <<4, 2, 6, 8, 5, 3, 7, 9, 1>>,
       <<7, 1, 3, 9, 2, 4, 8, 5, 6>>,
       <<9, 6, 1, 5, 3, 7, 2, 8, 4>>,
       <<2, 8, 7, 4, 1, 9, 6, 3, 5>>,
       <<3, 4, 5, 2, 8, 6, 1, 7, 9>> >>

Solution == [i \in Idx |-> [j \in Idx |-> str(SolutionRows[i + 1][j + 1])]]

EmptyBoard == [i \in Idx |-> [j \in Idx |-> Empty]]

\* cells the user may leave blank; the first four hold 1 3 / 3 1 in Solution
HolePool == {<<3, 5>>, <<3, 8>>, <<4, 5>>, <<4, 8>>, <<3, 6>>, <<4, 6>>}

\* cells the user may type another digit into
TamperPool == {<<3, 5>>, <<4, 7>>}

Tampers == [on : {FALSE}, cell : {<<0, 0>>}, digit : {"1"}]
           \cup [on : {TRUE}, cell : TamperPool, digit : Digits]

\* Solution with the cells of H blank and the cell of T overtyped
MakeBoard(H, T) ==
    [i \in Idx |-> [j \in Idx |->
        IF T.on /\ T.cell = <<i, j>> THEN T.digit
        ELSE IF <<i, j>> \in H THEN Empty
        ELSE Solution[i][j]]]

\* only the cells of H typed in
Sparse(H) ==
    [i \in Idx |-> [j \in Idx |->
        IF <<i, j>> \in H THEN Solution[i][j] ELSE Empty]]

PoolBoards ==
    {MakeBoard(H, T) : H \in {G \in SUBSET HolePool : Cardinality(G) <= MaxHoles},
                       T \in Tampers}

QueryBoards ==
    LET Hs == {G \in SUBSET HolePool : Cardinality(G) <= MaxQueryHoles}
    IN  {MakeBoard(H, CHOOSE T \in Tampers : ~T.on) : H \in Hs}
        \cup {Sparse(H) : H \in Hs}

NoQuery == [row |-> 0, col |-> 0, digit |-> "1", res |-> "None"]

-----------------------------------------------------------------------------
(* Call stack of solve_sudoku *)

Frame(b) == [pc |-> "start", row |-> 0, col |-> 0, k |-> 1, entry |-> b]

Top == stack[Len(stack)]

Pop == SubSeq(stack, 1, Len(stack) - 1)

SetTop(f) == [stack EXCEPT ![Len(stack)] = f]

\* ghost: the values of the cells that precede (row, col) in row-major order
\* (0 for an empty one), followed by the digit under test
Signature(b, row, col, digit) ==
    [n \in 1..(row * N + col) |->
        IF b[(n - 1) \div N][(n - 1) % N] = Empty THEN 0
        ELSE int(b[(n - 1) \div N][(n - 1) % N])] \o <<int(digit)>>

-----------------------------------------------------------------------------
(* Initial states *)

InitWith(Boards) ==
    /\ entries \in Boards
    /\ board = entries
    /\ input = entries
    /\ stack = <<>>
    /\ ret = "None"
    /\ returned = entries
    /\ result = "None"
    /\ pc = "idle"
    /\ calls = 0
    /\ wrote = FALSE
    /\ attempt = <<>>
    /\ query = NoQuery

InitPool == InitWith(PoolBoards)

Init == InitWith(PoolBoards \cup {EmptyBoard})

InitValid ==
    /\ entries \in QueryBoards
    /\ board = entries
    /\ input = entries
    /\ stack = <<>>
    /\ ret = "None"
    /\ returned = entries
    /\ result = "None"
    /\ pc = "query"
    /\ calls = 0
    /\ wrote = FALSE
    /\ attempt = <<>>
    /\ query \in [row : Idx, col : Idx, digit : Digits, res : {"None"}]

-----------------------------------------------------------------------------
(* SudokuUI.solve: the button is pressed *)

solve ==
    /\ pc = "idle"
    /\ calls < MaxCalls
    /\ board' = get_board(entries)
    /\ input' = get_board(entries)
    /\ stack' = <<Frame(get_board(entries))>>
    /\ ret' = "None"
    /\ returned' = get_board(entries)
    /\ pc' = "running"
    /\ calls' = calls + 1
    /\ wrote' = FALSE
    /\ attempt' = <<>>
    /\ UNCHANGED <<entries, result, query>>

Running == pc = "running" /\ stack # <<>>

\* cell is None: return True
FindEmptyNone ==
    /\ Running
    /\ Top.pc = "start"
    /\ find_empty(board) = None
    /\ stack' = Pop
    /\ ret' = "True"
    /\ returned' = Top.entry
    /\ UNCHANGED <<entries, board, input, result, pc, calls, wrote, attempt, query>>

\* row, col = cell; the loop starts at the first digit
FindEmptyCell ==
    /\ Running
    /\ Top.pc = "start"
    /\ find_empty(board) # None
    /\ stack' = SetTop([Top EXCEPT !.pc = "loop",
                                   !.row = find_empty(board)[1],
                                   !.col = find_empty(board)[2],
                                   !.k = 1])
    /\ UNCHANGED <<entries, board, input, ret, returned, result, pc, calls,
                   wrote, attempt, query>>

Place_noWrite ==
    /\ Running
    /\ Top.pc = "loop"
    /\ Top.k <= N
    /\ is_valid(board, Top.row, Top.col, DigitSeq[Top.k])
    /\ board' = board
    /\ stack' = Append(SetTop([Top EXCEPT !.pc = "wait"]), Frame(board'))
    /\ wrote' = TRUE
    /\ attempt' = Signature(board, Top.row, Top.col, DigitSeq[Top.k])
    /\ ret' = "None"
    /\ UNCHANGED <<entries, input, returned, result, pc, calls, query>>

Place_swapped ==
    /\ Running
    /\ Top.pc = "loop"
    /\ Top.k <= N
    /\ is_valid(board, Top.row, Top.col, DigitSeq[Top.k])
    /\ board' = [board EXCEPT ![Top.col][Top.row] = DigitSeq[Top.k]]
    /\ stack' = Append(SetTop([Top EXCEPT !.pc = "wait"]), Frame(board'))
    /\ wrote' = TRUE
    /\ attempt' = Signature(board, Top.row, Top.col, DigitSeq[Top.k])
    /\ ret' = "None"
    /\ UNCHANGED <<entries, input, returned, result, pc, calls, query>>

\* is_valid holds: board[row][col] = digit, then the recursive call
Place ==
    /\ Running
    /\ Top.pc = "loop"
    /\ Top.k <= N
    /\ is_valid(board, Top.row, Top.col, DigitSeq[Top.k])
    /\ board' = [board EXCEPT ![Top.row][Top.col] = DigitSeq[Top.k]]
    /\ stack' = Append(SetTop([Top EXCEPT !.pc = "wait"]), Frame(board'))
    /\ wrote' = TRUE
    /\ attempt' = Signature(board, Top.row, Top.col, DigitSeq[Top.k])
    /\ ret' = "None"
    /\ UNCHANGED <<entries, input, returned, result, pc, calls, query>>

\* is_valid fails: next digit
Skip ==
    /\ Running
    /\ Top.pc = "loop"
    /\ Top.k <= N
    /\ ~is_valid(board, Top.row, Top.col, DigitSeq[Top.k])
    /\ stack' = SetTop([Top EXCEPT !.k = @ + 1])
    /\ attempt' = Signature(board, Top.row, Top.col, DigitSeq[Top.k])
    /\ UNCHANGED <<entries, board, input, ret, returned, result, pc, calls,
                   wrote, query>>

\* the loop is over: return False
Exhausted ==
    /\ Running
    /\ Top.pc = "loop"
    /\ Top.k > N
    /\ stack' = Pop
    /\ ret' = "False"
    /\ returned' = Top.entry
    /\ UNCHANGED <<entries, board, input, result, pc, calls, wrote, attempt, query>>

\* the recursive call returned True: return True
PropagateTrue ==
    /\ Running
    /\ Top.pc = "wait"
    /\ ret = "True"
    /\ stack' = Pop
    /\ ret' = "True"
    /\ returned' = Top.entry
    /\ UNCHANGED <<entries, board, input, result, pc, calls, wrote, attempt, query>>

Backtrack_noUndo ==
    /\ Running
    /\ Top.pc = "wait"
    /\ ret = "False"
    /\ board' = board
    /\ stack' = SetTop([Top EXCEPT !.pc = "loop", !.k = @ + 1])
    /\ ret' = "None"
    /\ wrote' = TRUE
    /\ UNCHANGED <<entries, input, returned, result, pc, calls, attempt, query>>

Backtrack_sameDigit ==
    /\ Running
    /\ Top.pc = "wait"
    /\ ret = "False"
    /\ board' = [board EXCEPT ![Top.row][Top.col] = Empty]
    /\ stack' = SetTop([Top EXCEPT !.pc = "loop"])
    /\ ret' = "None"
    /\ wrote' = TRUE
    /\ UNCHANGED <<entries, input, returned, result, pc, calls, attempt, query>>

\* the recursive call returned False: board[row][col] = '', next digit
Backtrack ==
    /\ Running
    /\ Top.pc = "wait"
    /\ ret = "False"
    /\ board' = [board EXCEPT ![Top.row][Top.col] = Empty]
    /\ stack' = SetTop([Top EXCEPT !.pc = "loop", !.k = @ + 1])
    /\ ret' = "None"
    /\ wrote' = TRUE
    /\ UNCHANGED <<entries, input, returned, result, pc, calls, attempt, query>>

\* the root call has returned to SudokuUI.solve
Done == pc = "running" /\ stack = <<>>

\* solve_sudoku returned True: set_board(board)
SolveFound ==
    /\ Done
    /\ ret = "True"
    /\ result' = "True"
    /\ entries' = set_board(entries, board)
    /\ pc' = "idle"
    /\ UNCHANGED <<board, input, stack, ret, returned, calls, wrote, attempt, query>>

\* solve_sudoku returned False: "No solution found."
SolveNotFound ==
    /\ Done
    /\ ret = "False"
    /\ result' = "False"
    /\ pc' = "idle"
    /\ UNCHANGED <<entries, board, input, stack, ret, returned, calls, wrote,
                   attempt, query>>

\* one stand-alone call of Solver.is_valid
CallIsValid ==
    /\ pc = "query"
    /\ query' = [query EXCEPT !.res =
                    IF is_valid(board, query.row, query.col, query.digit)
                    THEN "True" ELSE "False"]
    /\ pc' = "answered"
    /\ UNCHANGED <<entries, board, input, stack, ret, returned, result, calls,
                   wrote, attempt>>

Next ==
    \/ solve
    \/ FindEmptyNone
    \/ FindEmptyCell
    \/ Place
    \/ Skip
    \/ Exhausted
    \/ PropagateTrue
    \/ Backtrack
    \/ SolveFound
    \/ SolveNotFound

NextValid == CallIsValid

Spec == Init /\ [][Next]_vars

\* the computation is synchronous and non-suspending: it always takes its next step
FairSpec == Init /\ [][Next]_vars /\ WF_vars(Next)

SpecPool == InitPool /\ [][Next]_vars

SpecValid == InitValid /\ [][NextValid]_vars

-----------------------------------------------------------------------------
(* Vocabulary of the properties *)

At(b, c) == b[c[1]][c[2]]

RowCells == {{<<i, j>> : j \in Idx} : i \in Idx}

ColCells == {{<<i, j>> : i \in Idx} : j \in Idx}

BoxCells == {{<<BoxSize * p + i, BoxSize * q + j>> : i \in 0..(BoxSize - 1),
                                                       j \in 0..(BoxSize - 1)} :
                p \in 0..(BoxSize - 1), q \in 0..(BoxSize - 1)}

Groups == RowCells \cup ColCells \cup BoxCells

\* no digit occurs twice in a row, a column or a box
NoDup(b) ==
    \A g \in Groups : \A c1 \in g : \A c2 \in g :
        (c1 # c2 /\ At(b, c1) # Empty) => At(b, c1) # At(b, c2)

\* every row, column and box holds each digit exactly once
IsSolved(b) ==
    \A g \in Groups : \A d \in Digits :
        Cardinality({c \in g : At(b, c) = d}) = 1

Holes(b) == {c \in Cells : At(b, c) = Empty}

NumEmpty(b) == Cardinality(Holes(b))

\* b2 has the digits of b1 wherever b1 is filled
Extends(b2, b1) == \A c \in Cells : At(b1, c) # Empty => At(b2, c) = At(b1, c)

\* all solved grids that extend b
RECURSIVE Completions(_)
Completions(b) ==
    IF Holes(b) = {} THEN (IF IsSolved(b) THEN {b} ELSE {})
    ELSE LET c == CHOOSE h \in Holes(b) : TRUE
         IN  UNION {Completions([b EXCEPT ![c[1]][c[2]] = d]) :
                      d \in {e \in Digits :
                               NoDup([b EXCEPT ![c[1]][c[2]] = e])}}

\* Solution is a completion, or some other solved grid is
HasCompletion(b) ==
    \/ (IsSolved(Solution) /\ Extends(Solution, b))
    \/ Completions(b) # {}

\* the digits of b on the cells that are empty in b0, in row-major order
HoleSeq(b, b0) ==
    LET RECURSIVE hs(_)
        hs(n) == IF n >= N * N THEN <<>>
                 ELSE IF b0[n \div N][n % N] = Empty
                      THEN <<int(b[n \div N][n % N])>> \o hs(n + 1)
                      ELSE hs(n + 1)
    IN  hs(0)

\* s comes strictly before t: a proper prefix, or smaller at the first difference
LexLess(s, t) ==
    \E i \in 1..Len(t) :
        /\ \A j \in 1..(i - 1) : j <= Len(s) /\ s[j] = t[j]
        /\ (i = Len(s) + 1 \/ (i <= Len(s) /\ s[i] < t[i]))

LexLeq(s, t) == s = t \/ LexLess(s, t)

\* the cells of the row, the column and the box of (row, col)
Region(row, col) ==
    {c \in Cells : \/ c[1] = row
                   \/ c[2] = col
                   \/ (c[1] \div BoxSize = row \div BoxSize
                       /\ c[2] \div BoxSize = col \div BoxSize)}

-----------------------------------------------------------------------------
(* Properties *)

\* C1: when the root call returns on an input without duplicates that has a
\* valid completion, it returns True and every row, column and box of the
\* board holds each digit exactly once.
C1_SolvesConsistentBoard ==
    (Done /\ NoDup(input) /\ HasCompletion(input))
        => (ret = "True" /\ IsSolved(board))

C1_Witness ==
    Done /\ input = EmptyBoard /\ ret = "True" /\ IsSolved(board)

\* C2: when the root call returns on an input that has no valid completion
\* (duplicate givens included, empty cells or not), it returns False.
C2_UnsolvableReturnsFalse ==
    (Done /\ ~HasCompletion(input)) => ret = "False"

\* C3: whenever a call, root or nested, has returned False, the board equals
\* cell for cell the board at the entry of that call.
C3_FalseRestoresEntry ==
    (pc = "running" /\ ret = "False") => board = returned

C3_Witness ==
    pc = "running" /\ ret = "False" /\ stack # <<>> /\ wrote
        /\ NumEmpty(returned) < NumEmpty(input)

\* C4: on a fully and validly filled board the root call returns True and no
\* cell was written; a call that follows a successful call returns True and
\* leaves the board as it found it.
C4_SolvedBoardUntouched ==
    /\ (Done /\ IsSolved(input)) => (ret = "True" /\ ~wrote /\ board = input)
    /\ (Done /\ calls >= 2 /\ result = "True")
           => (ret = "True" /\ ~wrote /\ board = input)

C4_Witness ==
    Done /\ calls >= 2 /\ result = "True" /\ IsSolved(input) /\ ret = "True"

\* C5 (as claimed): is_valid is True exactly when no cell other than
\* (row, col) in its row, column or box holds the digit.
C5_IgnoresOwnCell ==
    pc = "answered" =>
        ((query.res = "True") <=>
            ~ \E c \in Region(query.row, query.col) \ {<<query.row, query.col>>} :
                At(board, c) = query.digit)

\* C5 (amended): is_valid is True exactly when no cell of the row, the column
\* or the box of (row, col), the cell (row, col) included, holds the digit.
C5_IsValidIffAbsent ==
    pc = "answered" =>
        ((query.res = "True") <=>
            ~ \E c \in Region(query.row, query.col) : At(board, c) = query.digit)

C5_Witness ==
    /\ pc = "answered"
    /\ board[query.row][query.col] = query.digit
    /\ query.res = "False"
    /\ ~ \E c \in Region(query.row, query.col) \ {<<query.row, query.col>>} :
           At(board, c) = query.digit

\* C6: when the input has several valid completions and the root call returns
\* True, the board is the completion whose digits on the input's empty cells,
\* read in row-major order, come first.
C6_FirstInSearchOrder ==
    (Done /\ ret = "True" /\ Cardinality(Completions(input)) >= 2)
        => /\ board \in Completions(input)
           /\ \A c \in Completions(input) :
                 LexLeq(HoleSeq(board, input), HoleSeq(c, input))

C6_Witness ==
    Done /\ ret = "True" /\ Cardinality(Completions(input)) >= 2

\* C7: from an input without duplicates, the board has no duplicate digit in
\* any row, column or box after every write.
C7_NoDupPreserved == NoDup(input) => NoDup(board)

C7_Witness ==
    NoDup(input) /\ pc = "running" /\ Len(stack) >= 3 /\ ret = "None" /\ wrote
        /\ input # EmptyBoard

\* C8 (as claimed): the number of active calls never exceeds 81.
C8_DepthAtMostCells == Len(stack) <= N * N

\* C8 (amended): the number of active calls never exceeds the number of empty
\* cells of the input plus one, hence never exceeds 82.
C8_DepthAtMostHolesPlusOne ==
    Len(stack) <= NumEmpty(input) + 1 /\ Len(stack) <= N * N + 1

C8_Witness == Len(stack) = N * N + 1

\* C9: every root call returns, with True or with False, False only when the
\* input has an empty cell; and each test of a digit at a cell comes strictly
\* later in the search order than the test before it, so none is repeated.
C9_Terminates ==
    /\ (pc = "running") ~> (pc = "idle")
    /\ [](Done => (ret \in {"True", "False"}
                   /\ (ret = "False" => find_empty(input) # None)))
    /\ [][(Place \/ Skip) => LexLess(attempt, attempt')]_vars

C9_Witness ==
    pc = "idle" /\ calls >= 1 /\ result = "False" /\ wrote /\ attempt # <<>>

\* C10: every cell filled in the input keeps its value, and every cell holds
\* a digit '1'..'9' or the empty marker.
C10_GivensKept ==
    \A c \in Cells :
        /\ At(input, c) # Empty => At(board, c) = At(input, c)
        /\ At(board, c) \in Digits \cup {Empty}

C10_Witness ==
    Done /\ wrote /\ NumEmpty(input) >= 2 /\ input # EmptyBoard /\ ret = "False"

====
